---- MODULE Spec2Model ----
(***************************************************************************)
(* A model of the rinha payment cluster: the gateway (src/gateway), the    *)
(* API / dispatcher (src/api) and the store daemon (src/rinha-db), glued   *)
(* by newline-delimited frames over Unix stream sockets.                   *)
(*                                                                         *)
(* The in-memory SummaryStore (src/rinha-db/src/storage.rs) and the        *)
(* single-process server (src/src/main.rs) are modelled beside it, each    *)
(* under a specification of its own.                                       *)
(*                                                                         *)
(* Strings are sequences of byte codes, compared byte-wise as sled does.   *)
(* Amounts are whole numbers of a currency unit.                           *)
(***************************************************************************)
EXTENDS Integers, Sequences, FiniteSets, Bags, TLC

\* ------------------------------------------------------------------ bounds
MaxPayments == 2
NumWorkers == 2
MaxClock == 1
MaxLines == 3
PoolSize == 1
MaxSummaries == 1
MaxSummaryPayments == 1
MaxUnread == 2
PoolCap == 2
NumTasks == 2
MaxDials == 1
CounterBits == 3
MaxMinute == 1
MaxInserts == 2
MaxRequests == 2

\* ------------------------------------------------------- program constants
QUEUE_CAP == 1000
\* The single-process server: its worker count and channel capacities.
NUM_WORKERS == 4
MAIN_CHANNEL_CAP == 1000
DB_CHANNEL_CAP == 1000
WORKER_CHANNEL_CAP == 100

Payments == 1..MaxPayments
Workers == 1..NumWorkers
\* The amounts clients pay, and the requests they send.
Amounts == {1, 2}
PaymentDTOs == {[correlation_id |-> a, amount |-> a] : a \in Amounts}
Instants == 0..MaxClock

\* ------------------------------------------------------------------ strings
\* chrono's Utc::now().to_rfc3339(): the seconds, a fraction only when it is
\* not zero, and the offset written "+00:00".  An instant t counts half
\* seconds from second 1 on; the string is reduced to
\* <seconds digit>[".5"]"+".
to_rfc3339(t) ==
    <<49 + (t \div 2)>> \o (IF t % 2 = 1 THEN <<46, 53>> ELSE <<>>) \o <<43>>

\* The same instant as a client of the gateway writes it in a query
\* parameter, with the offset written "Z": <seconds digit>[".5"]"Z".
rfc3339_z(t) ==
    <<49 + (t \div 2)>> \o (IF t % 2 = 1 THEN <<46, 53>> ELSE <<>>) \o <<90>>

\* The gateway's defaults "0000-01-01T00:00:00Z" and "9999-12-31T23:59:59Z",
\* reduced the same way: <seconds digit>"Z", before and after every instant
\* of the clock.
DEFAULT_FROM == <<48, 90>>
DEFAULT_TO == <<57, 90>>

\* The instant an RFC 3339 string denotes, in half seconds: the seconds
\* digit and the fraction, whatever way the offset is written.
instant_of(s) ==
    2 * (s[1] - 48) + (IF Len(s) >= 3 /\ s[2] = 46 /\ s[3] = 53 THEN 1 ELSE 0)

Keys == {to_rfc3339(t) : t \in Instants}

\* Byte-wise lexicographic order of two byte strings (the order of sled keys).
LexLess(a, b) ==
    \E i \in 1..Len(b) :
        /\ i - 1 <= Len(a)
        /\ \A j \in 1..(i - 1) : a[j] = b[j]
        /\ (i > Len(a) \/ a[i] < b[i])

LexLeq(a, b) == a = b \/ LexLess(a, b)

\* ------------------------------------------------------------------- state
VARIABLES
    clock,          \* the wall clock read by Utc::now()
    default_tree,   \* store: the "default" sled tree handle and its contents
    fallback_tree,  \* store: the "fallback" sled tree handle and its contents
    command_q,      \* store: the command channel (command_tx -> command_rx)
    db_worker,      \* store: "running", or "stuck" in a scan that never ends
    conn,           \* store: one record per client connection (handle_client)
    writes_applied, \* store: number of Write commands the worker has taken
    lines_sent,     \* number of lines clients have written to the store so far
    api_pool,       \* gateway: AppState.api_pool
    db_pool,        \* gateway: AppState.db_pool
    posted,         \* gateway: number of POST /payments requests served
    gw_status,      \* gateway: the status answered to each POST /payments
    gw_summary,     \* gateway: the GET /payments-summary request in progress
    gw_purge,       \* gateway: what became of POST /purge-payments
    api_in,         \* API: the unread lines of each accepted connection
    api_task,       \* API: each connection's accept task, "running" or "ended"
    queue,          \* API: the payment channel (tx -> rx)
    worker,         \* API: each worker's position in process_payment
    log,            \* per payment: the provider calls and store writes made
    shared_pool,    \* a UnixConnectionPool shared by concurrent tasks
    pool_task,      \* each task's position in an operation on shared_pool
    summary_store,  \* SummaryStore.data of the in-memory store
    insert_calls,   \* the insert calls made on summary_store so far (a bag)
    returned,       \* what the most recent call on summary_store returned
    http_req,       \* single-process server: each POST /payments request
    main_rx,        \* single-process server: the channel main_tx -> main_rx
    db_rx,          \* single-process server: the channel db_tx -> db_rx
    worker_rxs,     \* single-process server: each worker's channel
    dispatch_i,     \* single-process server: the dispatcher's counter i
    payments_table, \* single-process server: the rows of table payments
    worker_got      \* single-process server: the messages each worker received

store_vars == <<default_tree, fallback_tree, command_q, db_worker, conn,
                writes_applied, lines_sent>>
gateway_vars == <<api_pool, db_pool, posted, gw_status, gw_summary, gw_purge>>
api_vars == <<api_in, api_task, queue, worker, log>>
pool_vars == <<shared_pool, pool_task>>
mem_vars == <<summary_store, insert_calls, returned>>
server_vars == <<http_req, main_rx, db_rx, worker_rxs, dispatch_i,
                 payments_table, worker_got>>
vars == <<clock, store_vars, gateway_vars, api_vars, pool_vars, mem_vars,
          server_vars>>

\* Store connections: 1..PoolSize are dialed by the gateway's db_pool at
\* start-up; each payment's Write and each summary that finds the pool empty
\* dials its own.
PoolConns == 1..PoolSize
WorkerConn(p) == PoolSize + p
SummaryConn(n) == PoolSize + MaxPayments + n
ConnIds == 1..(PoolSize + MaxPayments + MaxSummaries)

\* API connections: 1..PoolSize are dialed by the gateway's api_pool at
\* start-up; a POST that finds the pool empty dials its own.
PaymentConn(p) == PoolSize + p
ApiConnIds == 1..(PoolSize + MaxPayments)

\* The API instance behind an API connection: every connection of api_pool
\* is dialed to "/tmp/api-1.sock", the socket of instance 1.
InstanceOf(c) == 1

EmptyMap == [k \in {} |-> 0]

NewTree == [dropped |-> FALSE, kv |-> EmptyMap]

NoConn ==
    [st |-> "none", inbuf |-> <<>>, eof |-> FALSE,
     response_q |-> <<>>, writer |-> "none", out |-> <<>>]

NewConn ==
    [st |-> "open", inbuf |-> <<>>, eof |-> FALSE,
     response_q |-> <<>>, writer |-> "running", out |-> <<>>]

\* ------------------------------------------------------------- the ordered map
\* Variant of insert that keeps the stored value of a key already present.
tree_insert_if_absent(tree, key, value) ==
    IF tree.dropped \/ key \in DOMAIN tree.kv THEN tree
    ELSE [tree EXCEPT !.kv = [k \in (DOMAIN tree.kv) \cup {key} |->
                                 IF k = key THEN value ELSE tree.kv[k]]]

\* sled::Tree::insert on a live handle; on a handle whose tree was dropped the
\* call returns Err(CollectionNotFound) and changes nothing.
tree_insert(tree, key, value) ==
    IF tree.dropped THEN tree
    ELSE [tree EXCEPT !.kv = [k \in (DOMAIN tree.kv) \cup {key} |->
                                 IF k = key THEN value ELSE tree.kv[k]]]

\* Variant of the range scan with the upper bound excluded (from..to).
RangeKeys_half_open(tree, from, to) ==
    {k \in DOMAIN tree.kv : LexLeq(from, k) /\ LexLess(k, to)}

\* Variant of the range scan that puts reversed bounds in order first.
RangeKeys_unordered(tree, from, to) ==
    {k \in DOMAIN tree.kv :
        \/ LexLeq(from, k) /\ LexLeq(k, to)
        \/ LexLeq(to, k) /\ LexLeq(k, from)}

\* tree.range(from..=to): the keys of a live tree within the bounds, both
\* included; nothing when from is above to.
RangeKeys(tree, from, to) ==
    {k \in DOMAIN tree.kv : LexLeq(from, k) /\ LexLeq(k, to)}

MinKey(S) == CHOOSE k \in S : \A x \in S : LexLeq(k, x)

RECURSIVE InOrder(_)
InOrder(S) == IF S = {} THEN <<>> ELSE <<MinKey(S)>> \o InOrder(S \ {MinKey(S)})

\* tree.range(from..=to): the (key, value) items in key order.
tree_range(tree, from, to) ==
    LET ks == InOrder(RangeKeys(tree, from, to))
    IN [i \in 1..Len(ks) |-> <<ks[i], tree.kv[ks[i]]>>]

Summary_new == [totalRequests |-> 0, totalAmount |-> 0]

\* impl FromIterator for Summary: fold the items, adding each value and
\* counting one request per item.
RECURSIVE Summary_fold(_, _)
Summary_fold(summary, items) ==
    IF items = <<>> THEN summary
    ELSE Summary_fold([totalRequests |-> summary.totalRequests + 1,
                       totalAmount |-> summary.totalAmount + Head(items)[2]],
                      Tail(items))

Summary_from_iter(items) == Summary_fold(Summary_new, items)

\* The response of one Read: GlobalSummary { default, fallback }.
read_response(from, to) ==
    [default |-> Summary_from_iter(tree_range(default_tree, from, to)),
     fallback |-> Summary_from_iter(tree_range(fallback_tree, from, to))]

ZeroSummary == [default |-> Summary_new, fallback |-> Summary_new]

\* ------------------------------------------------------------------ frames
ReadMsg(from, to) == [type |-> "Read", from |-> from, to |-> to]
WriteMsg(key, value, tree) == [type |-> "Write", key |-> key, value |-> value, tree |-> tree]
PurgeMsg == [type |-> "Purge"]
BlankLine == [type |-> "Blank"]
BadLine == [type |-> "Bad"]
\* A line whose bytes are not valid UTF-8.
NonUtf8Line == [type |-> "NonUtf8"]

\* Lines::next_line(): Ok for a line of valid UTF-8, Err(InvalidData)
\* otherwise.
is_utf8(line) == line # NonUtf8Line

SledTrees == {"Default", "Fallback"}

\* serde_json::from_str::<Message>: Ok for the three variants only.
parses_as_message(line) == line.type \in {"Read", "Write", "Purge"}

\* --------------------------------------------------------- store: handle_client
\* One turn of the read loop of handle_client on connection c: take the next
\* line, skip it when blank, log it when it does not parse, otherwise send
\* the command on the command channel.
handle_client_line(c) ==
    /\ conn[c].st = "open"
    /\ conn[c].inbuf # <<>>
    /\ is_utf8(Head(conn[c].inbuf))
    /\ LET line == Head(conn[c].inbuf)
           cmd == IF line.type = "Read"
                  THEN [type |-> "Read", from |-> line.from, to |-> line.to, response_tx |-> c]
                  ELSE line
       IN /\ conn' = [conn EXCEPT ![c].inbuf = Tail(@)]
          /\ command_q' = IF line.type # "Blank" /\ parses_as_message(line)
                          THEN Append(command_q, cmd)
                          ELSE command_q
    /\ UNCHANGED <<clock, pool_vars, mem_vars, server_vars, default_tree, fallback_tree, db_worker, lines_sent, writes_applied, gateway_vars, api_vars>>

\* The read loop reads bytes that are not UTF-8: next_line() returns Err and
\* `?` returns it from handle_client before writer_task.abort(); the reader
\* is dropped, the writer task is left running, and what the client wrote
\* after is never read.
handle_client_read_error(c) ==
    /\ conn[c].st = "open"
    /\ conn[c].inbuf # <<>>
    /\ ~is_utf8(Head(conn[c].inbuf))
    /\ conn' = [conn EXCEPT ![c].st = "done", ![c].inbuf = Tail(@)]
    /\ UNCHANGED <<clock, pool_vars, mem_vars, server_vars, default_tree, fallback_tree, command_q, db_worker, lines_sent, writes_applied, gateway_vars, api_vars>>

\* The read loop sees end of input: handle_client aborts its writer task and
\* returns; responses still waiting in the response channel are discarded.
handle_client_eof(c) ==
    /\ conn[c].st = "open"
    /\ conn[c].inbuf = <<>>
    /\ conn[c].eof
    /\ conn' = [conn EXCEPT ![c].st = "done", ![c].writer = "aborted",
                            ![c].response_q = <<>>]
    /\ UNCHANGED <<clock, pool_vars, mem_vars, server_vars, default_tree, fallback_tree, command_q, db_worker, lines_sent, writes_applied, gateway_vars, api_vars>>

\* One turn of the writer task of connection c: write one response line.
writer_task(c) ==
    /\ conn[c].writer = "running"
    /\ conn[c].response_q # <<>>
    /\ conn' = [conn EXCEPT ![c].response_q = Tail(@),
                            ![c].out = Append(@, Head(conn[c].response_q))]
    /\ UNCHANGED <<clock, pool_vars, mem_vars, server_vars, default_tree, fallback_tree, command_q, db_worker, lines_sent, writes_applied, gateway_vars, api_vars>>

\* ------------------------------------------------------- store: database_worker
\* response_tx.send(response): queued for the connection's writer task unless
\* that task is gone.
send_response(c, response) ==
    IF conn[c].writer = "running"
    THEN [conn EXCEPT ![c].response_q = Append(@, response)]
    ELSE conn

\* Command::Read on live trees.
database_worker_read ==
    /\ db_worker = "running"
    /\ command_q # <<>>
    /\ Head(command_q).type = "Read"
    /\ ~default_tree.dropped /\ ~fallback_tree.dropped
    /\ LET cmd == Head(command_q)
       IN conn' = send_response(cmd.response_tx, read_response(cmd.from, cmd.to))
    /\ command_q' = Tail(command_q)
    /\ UNCHANGED <<clock, pool_vars, mem_vars, server_vars, default_tree, fallback_tree, db_worker, lines_sent, writes_applied, gateway_vars, api_vars>>

\* Command::Read on handles whose trees were dropped: every item the scan
\* yields is an Err, which from_iter filters out.  Whether such a scan ends
\* is decided by sled, not by this code, so both outcomes are allowed: the
\* scan ends with nothing counted, or the worker never leaves it.
database_worker_read_dropped ==
    /\ db_worker = "running"
    /\ command_q # <<>>
    /\ Head(command_q).type = "Read"
    /\ default_tree.dropped \/ fallback_tree.dropped
    /\ \/ /\ conn' = send_response(Head(command_q).response_tx, ZeroSummary)
          /\ command_q' = Tail(command_q)
          /\ UNCHANGED db_worker
       \/ /\ db_worker' = "stuck"
          /\ command_q' = Tail(command_q)
          /\ UNCHANGED conn
    /\ UNCHANGED <<clock, pool_vars, mem_vars, server_vars, default_tree, fallback_tree, lines_sent, writes_applied, gateway_vars, api_vars>>

\* Variant of the Write arm on a channel that hands over its newest command
\* first.
database_worker_write_newest_first ==
    /\ db_worker = "running"
    /\ command_q # <<>>
    /\ command_q[Len(command_q)].type = "Write"
    /\ LET cmd == command_q[Len(command_q)]
       IN IF cmd.tree = "Fallback"
          THEN /\ fallback_tree' = tree_insert(fallback_tree, cmd.key, cmd.value)
               /\ UNCHANGED default_tree
          ELSE /\ default_tree' = tree_insert(default_tree, cmd.key, cmd.value)
               /\ UNCHANGED fallback_tree
    /\ command_q' = SubSeq(command_q, 1, Len(command_q) - 1)
    /\ writes_applied' = writes_applied + 1
    /\ UNCHANGED <<clock, pool_vars, mem_vars, server_vars, db_worker, conn, lines_sent, gateway_vars, api_vars>>

\* Command::Write: insert into the tree the frame names; an engine error is
\* logged and the command is dropped.
database_worker_write ==
    /\ db_worker = "running"
    /\ command_q # <<>>
    /\ Head(command_q).type = "Write"
    /\ LET cmd == Head(command_q)
       IN IF cmd.tree = "Fallback"
          THEN /\ fallback_tree' = tree_insert(fallback_tree, cmd.key, cmd.value)
               /\ UNCHANGED default_tree
          ELSE /\ default_tree' = tree_insert(default_tree, cmd.key, cmd.value)
               /\ UNCHANGED fallback_tree
    /\ command_q' = Tail(command_q)
    /\ writes_applied' = writes_applied + 1
    /\ UNCHANGED <<clock, pool_vars, mem_vars, server_vars, db_worker, conn, lines_sent, gateway_vars, api_vars>>

\* db.drop_tree(name): the tree's pages are freed and every handle opened on
\* it before is invalidated.
drop_tree(tree) == [dropped |-> TRUE, kv |-> EmptyMap]

\* Variant of the Purge arm that stops after the first drop_tree.
database_worker_purge_fallback_only ==
    /\ db_worker = "running"
    /\ command_q # <<>>
    /\ Head(command_q).type = "Purge"
    /\ fallback_tree' = drop_tree(fallback_tree)
    /\ command_q' = Tail(command_q)
    /\ UNCHANGED <<clock, pool_vars, mem_vars, server_vars, default_tree, db_worker, conn, lines_sent, writes_applied, gateway_vars, api_vars>>

\* Command::Purge: drop "fallback", then "default".
database_worker_purge ==
    /\ db_worker = "running"
    /\ command_q # <<>>
    /\ Head(command_q).type = "Purge"
    /\ fallback_tree' = drop_tree(fallback_tree)
    /\ default_tree' = drop_tree(default_tree)
    /\ command_q' = Tail(command_q)
    /\ UNCHANGED <<clock, pool_vars, mem_vars, server_vars, db_worker, conn, lines_sent, writes_applied, gateway_vars, api_vars>>

\* The tasks the store process is running: main spawns database_worker once,
\* and handle_client for each accepted connection, which spawns that
\* connection's writer task.  Each task is named with its connection (0 for
\* the one database_worker).
store_tasks ==
    (IF db_worker = "running" THEN {<<"database_worker", 0>>} ELSE {})
        \cup {<<"handle_client", c>> : c \in {d \in ConnIds : conn[d].st = "open"}}
        \cup {<<"writer_task", c>> :
                 c \in {d \in ConnIds : conn[d].st # "none" /\ conn[d].writer = "running"}}

\* ------------------------------------------------------- a client of the store
\* Any process may connect to the store socket and write lines.
ClientLines ==
    {BlankLine, BadLine, PurgeMsg}
        \cup {ReadMsg(f, t) : f \in Keys, t \in Keys}
        \cup {WriteMsg(k, v, tr) : k \in Keys, v \in Amounts, tr \in SledTrees}

\* The connection the client of the store daemon writes on: the first one
\* the store accepted.
StoreClient == CHOOSE c \in PoolConns : \A d \in PoolConns : c <= d

client_send(c, line) ==
    /\ conn[c].st = "open"
    /\ ~conn[c].eof
    /\ lines_sent < MaxLines
    /\ conn' = [conn EXCEPT ![c].inbuf = Append(@, line)]
    /\ lines_sent' = lines_sent + 1
    /\ UNCHANGED <<clock, pool_vars, mem_vars, server_vars, default_tree, fallback_tree, command_q, db_worker, writes_applied, gateway_vars, api_vars>>

client_close(c) ==
    /\ conn[c].st = "open"
    /\ ~conn[c].eof
    /\ conn' = [conn EXCEPT ![c].eof = TRUE]
    /\ UNCHANGED <<clock, pool_vars, mem_vars, server_vars, default_tree, fallback_tree, command_q, db_worker, lines_sent, writes_applied, gateway_vars, api_vars>>

\* ------------------------------------------------------ UnixConnectionPool
\* A pool: the idle queue, the counter and the cap.
NewPool(conns) ==
    [connections |-> conns, current_size |-> Len(conns), pool_size |-> PoolSize]

\* try_get_connection: pop an idle connection and count it out, or None.
try_get_connection(pool) ==
    IF pool.connections # <<>>
    THEN [some |-> TRUE, conn |-> Head(pool.connections),
          pool |-> [pool EXCEPT !.connections = Tail(@), !.current_size = @ - 1]]
    ELSE [some |-> FALSE, pool |-> pool]

\* acquire: an idle connection if there is one, otherwise a newly dialed one
\* (fresh); the store and the API are listening, so the dial succeeds.
acquire(pool, fresh) ==
    LET got == try_get_connection(pool)
    IN IF got.some THEN got ELSE [some |-> TRUE, conn |-> fresh, pool |-> pool]

\* return_connection: push the connection back unless the counter says the
\* pool is full.
return_connection(pool, c) ==
    IF pool.current_size < pool.pool_size
    THEN [pool EXCEPT !.connections = Append(@, c), !.current_size = @ + 1]
    ELSE pool

\* Variant of write_frame that leaves the line in a buffer, unflushed.
write_frame_unflushed(stream, line) == stream

\* write_all(line), write_all("\n"), flush: the line is on the stream.
write_frame(stream, line) == Append(stream, line)

\* ------------------------------------------------------------------ gateway
\* exec_payment: POST /payments.  Acquire an API connection, write the
\* serialized payload and a newline, flush, answer 200; the pooled connection
\* goes back to the pool when the handler returns.  The field id is not part
\* of the payload: it names the request in the properties below.
exec_payment(payload) ==
    /\ posted < MaxPayments
    /\ LET p == posted + 1
           line == [id |-> p, correlation_id |-> payload.correlation_id,
                    amount |-> payload.amount]
           got == acquire(api_pool, PaymentConn(p))
       IN /\ api_in' = [api_in EXCEPT ![got.conn] = write_frame(@, line)]
          /\ api_pool' = return_connection(got.pool, got.conn)
          /\ gw_status' = [gw_status EXCEPT ![p] = "200"]
          /\ posted' = p
    /\ UNCHANGED <<clock, pool_vars, mem_vars, server_vars, store_vars, db_pool, gw_summary, gw_purge, api_task, queue, worker, log>>

\* The query parameters from and to of GET /payments-summary, each optional.
Absent == <<>>
QueryParams == {Absent} \cup Keys

NoSummary ==
    [st |-> "idle", conn |-> 1, from |-> DEFAULT_FROM, to |-> DEFAULT_TO,
     after_purge |-> FALSE, response |-> ZeroSummary, served |-> 0,
     status |-> "none"]

\* get_payments_summary, up to the flush: apply the defaults, acquire a
\* store connection, write the Read frame; take() then removes the stream
\* from the PooledConnection, so nothing is returned to the pool.
get_payments_summary_send(from_param, to_param) ==
    /\ gw_summary.st # "waiting"
    /\ gw_summary.served < MaxSummaries
    /\ LET from == IF from_param = Absent THEN DEFAULT_FROM ELSE from_param
           to == IF to_param = Absent THEN DEFAULT_TO ELSE to_param
           got == acquire(db_pool, SummaryConn(gw_summary.served + 1))
           c == got.conn
       IN /\ conn' = [conn EXCEPT ![c] =
                        [(IF conn[c].st = "none" THEN NewConn ELSE conn[c])
                            EXCEPT !.inbuf = write_frame(@, ReadMsg(from, to))]]
          /\ db_pool' = got.pool
          /\ gw_summary' = [st |-> "waiting", conn |-> c, from |-> from, to |-> to,
                            after_purge |-> gw_purge.requested,
                            response |-> ZeroSummary,
                            served |-> gw_summary.served,
                            status |-> "none"]
    /\ UNCHANGED <<clock, pool_vars, mem_vars, server_vars, default_tree, fallback_tree, command_q, db_worker,
                   writes_applied, lines_sent, api_pool, posted, gw_status,
                   gw_purge, api_vars>>

\* get_payments_summary, from read_line on: one response line is read and
\* answered with 200; the stream is closed when the handler returns.
get_payments_summary_recv ==
    /\ gw_summary.st = "waiting"
    /\ conn[gw_summary.conn].out # <<>>
    /\ gw_summary' = [NoSummary EXCEPT !.st = "done",
                                       !.response = Head(conn[gw_summary.conn].out),
                                       !.served = gw_summary.served + 1,
                                       !.status = "200"]
    /\ conn' = [conn EXCEPT ![gw_summary.conn].out = Tail(@),
                            ![gw_summary.conn].eof = TRUE]
    /\ UNCHANGED <<clock, pool_vars, mem_vars, server_vars, default_tree, fallback_tree, command_q, db_worker,
                   writes_applied, lines_sent, api_pool, db_pool, posted,
                   gw_status, gw_purge, api_vars>>

\* get_payments_summary when db_pool.acquire() returns Err: the pool is empty
\* and the dial of a new connection fails.  unwrap() panics; the panic ends
\* the task serving this HTTP connection, which is closed with no response
\* written.  The pools and the listener are untouched.
get_payments_summary_acquire_fails ==
    /\ gw_summary.st # "waiting"
    /\ ~try_get_connection(db_pool).some
    /\ gw_summary' = [NoSummary EXCEPT !.st = "acquire_failed",
                                       !.served = gw_summary.served,
                                       !.status = "none"]
    /\ UNCHANGED <<clock, pool_vars, mem_vars, server_vars, store_vars, api_pool, db_pool, posted, gw_status,
                   gw_purge, api_vars>>

\* POST /purge-payments: the router registers no such route (the line is
\* commented out), so the request is answered 404 and nothing is sent to the
\* store.  mark remembers how many Writes the store had applied by then.
purge_payments_request ==
    /\ ~gw_purge.requested
    /\ gw_purge' = [requested |-> TRUE, status |-> "404", mark |-> writes_applied]
    /\ UNCHANGED <<clock, pool_vars, mem_vars, server_vars, store_vars, api_pool, db_pool, posted, gw_status,
                   gw_summary, api_vars>>

\* ---------------------------------------------------------------- API ingress
\* serde_json::from_str::<PaymentDTO>.
parses_as_payment(line) == "amount" \in DOMAIN line

\* Variant of the channel with no capacity: a send never waits.
channel_unbounded(q) == TRUE

\* bounded(QUEUE_CAP): a send completes while the channel holds fewer than
\* QUEUE_CAP payments and waits otherwise.
channel_has_room(q) == Len(q) < QUEUE_CAP

\* One turn of the accept task of API connection c: skip a blank line, log a
\* line that does not parse, send a payment on the channel (which waits while
\* the channel holds QUEUE_CAP payments).
accept_task(c) ==
    /\ api_task[c] = "running"
    /\ api_in[c] # <<>>
    /\ is_utf8(Head(api_in[c]))
    /\ LET line == Head(api_in[c])
       IN IF parses_as_payment(line)
          THEN /\ channel_has_room(queue)
               /\ queue' = Append(queue, line)
          ELSE UNCHANGED queue
    /\ api_in' = [api_in EXCEPT ![c] = Tail(@)]
    /\ UNCHANGED <<clock, pool_vars, mem_vars, server_vars, store_vars, gateway_vars, api_task, worker, log>>

\* The accept task of API connection c reads bytes that are not UTF-8:
\* next_line() returns Err, `while let Ok(Some(line))` ends and the task
\* returns, dropping the reader; what the client wrote after is never read.
accept_task_read_error(c) ==
    /\ api_task[c] = "running"
    /\ api_in[c] # <<>>
    /\ ~is_utf8(Head(api_in[c]))
    /\ api_in' = [api_in EXCEPT ![c] = Tail(@)]
    /\ api_task' = [api_task EXCEPT ![c] = "ended"]
    /\ UNCHANGED <<clock, pool_vars, mem_vars, server_vars, store_vars, gateway_vars, queue, worker, log>>

\* A client of the API socket: any process may connect to it and write
\* lines; at most MaxUnread of them wait unread on a connection.
ApiClient == CHOOSE c \in ApiConnIds : \A d \in ApiConnIds : c <= d

ClientPayment == [id |-> 1, correlation_id |-> 1, amount |-> 1]

api_client_send(c, line) ==
    /\ api_task[c] = "running"
    /\ Len(api_in[c]) < MaxUnread
    /\ api_in' = [api_in EXCEPT ![c] = write_frame(@, line)]
    /\ UNCHANGED <<clock, pool_vars, mem_vars, server_vars, store_vars, gateway_vars, api_task, queue, worker, log>>

\* ------------------------------------------------------------ API: the workers
Idle == [pc |-> "idle"]

Replies == {"2xx", "non2xx", "transport"}

\* PaymentServiceDTO::new.
PaymentServiceDTO_new(payment, requested_at) ==
    [correlation_id |-> payment.correlation_id, amount |-> payment.amount,
     requested_at |-> requested_at]

Post(provider, body) == [ev |-> "post", provider |-> provider, body |-> body]
Reply(provider, r) == [ev |-> "reply", provider |-> provider, result |-> r]
Wrote(msg) == [ev |-> "write", msg |-> msg]
Returned(r) == [ev |-> "return", result |-> r]

\* Variant of worker_recv on a channel that delivers each payment to every
\* receiver: the payment stays at the head of the queue.
worker_recv_broadcast(w) ==
    /\ worker[w].pc = "idle"
    /\ queue # <<>>
    /\ LET payment == Head(queue)
           now == to_rfc3339(clock)
           payload == PaymentServiceDTO_new(payment, now)
       IN /\ worker' = [worker EXCEPT ![w] =
                          [pc |-> "default", id |-> payment.id, now |-> now,
                           payload |-> payload]]
          /\ log' = [log EXCEPT ![payment.id] = Append(@, Post("default", payload))]
    /\ UNCHANGED <<clock, pool_vars, mem_vars, server_vars, store_vars, gateway_vars, api_in, api_task, queue>>

\* The worker loop takes a payment; process_payment reads the clock, builds
\* the submission and POSTs it to the default provider.
worker_recv(w) ==
    /\ worker[w].pc = "idle"
    /\ queue # <<>>
    /\ LET payment == Head(queue)
           now == to_rfc3339(clock)
           payload == PaymentServiceDTO_new(payment, now)
       IN /\ worker' = [worker EXCEPT ![w] =
                          [pc |-> "default", id |-> payment.id, now |-> now,
                           payload |-> payload]]
          /\ log' = [log EXCEPT ![payment.id] = Append(@, Post("default", payload))]
    /\ queue' = Tail(queue)
    /\ UNCHANGED <<clock, pool_vars, mem_vars, server_vars, store_vars, gateway_vars, api_in, api_task>>

\* Variant of after_default without the status check: every response goes on
\* to the fallback provider.
after_default_unchecked(r) ==
    IF r = "transport" THEN "return_err" ELSE "fallback"

\* Variant of after_fallback without the res.is_ok() guard.
after_fallback_unchecked(r) ==
    IF r = "transport" THEN "return_err" ELSE "write"

\* Variant of after_default that goes on to the store write whatever the
\* status of the response.
after_default_write_always(r) ==
    IF r = "transport" THEN "return_err" ELSE "write"

\* What process_payment does with the outcome of the default POST: a
\* transport error leaves through `?`, a 2xx goes on to the store write, any
\* other status goes on to the fallback provider.
after_default(r) ==
    IF r = "transport" THEN "return_err"
    ELSE IF r = "2xx" THEN "write"
    ELSE "fallback"

\* The same for the fallback POST: res.is_ok() guards the store write.
after_fallback(r) ==
    IF r = "transport" THEN "return_err"
    ELSE IF r = "2xx" THEN "write"
    ELSE "return_ok"

\* Variant of write_message that reads the clock again for the key.
write_message_fresh_clock(now, payload, tree) ==
    WriteMsg(to_rfc3339(clock), payload.amount, tree)

\* The Write frame of a payment: key: now, value: payload.amount.
write_message(now, payload, tree) == WriteMsg(now, payload.amount, tree)

\* UnixStream::connect, write the frame, flush; the stream is dropped when
\* process_payment returns.  The connect may fail, and the error leaves
\* through `?`.
store_write(w, tree, connected, events) ==
    LET p == worker[w].id
        msg == write_message(worker[w].now, worker[w].payload, tree)
    IN IF connected
       THEN /\ conn' = [conn EXCEPT ![WorkerConn(p)] =
                           [NewConn EXCEPT !.inbuf = write_frame(@, msg), !.eof = TRUE]]
            /\ log' = [log EXCEPT ![p] = @ \o events \o <<Wrote(msg), Returned("Ok")>>]
       ELSE /\ UNCHANGED conn
            /\ log' = [log EXCEPT ![p] = @ \o events \o <<Returned("Err")>>]

\* Variant of the worker loop that ends when process_payment returns Err.
worker_loop_stops_on_err(result) ==
    IF result = "Err" THEN [pc |-> "stopped"] ELSE Idle

\* The worker loop after process_payment returned: an Err is logged, and in
\* either case the loop goes back to rx.recv().
worker_loop(result) == Idle

\* The default provider's answer r arrives.
default_reply(w, r, connected) ==
    /\ worker[w].pc = "default"
    /\ LET p == worker[w].id
           next == after_default(r)
           ev == <<Reply("default", r)>>
       IN CASE next = "write" ->
                 /\ store_write(w, "Default", connected, ev)
                 /\ worker' = [worker EXCEPT ![w] =
                                  worker_loop(IF connected THEN "Ok" ELSE "Err")]
            [] next = "fallback" ->
                 /\ log' = [log EXCEPT ![p] = @ \o ev \o <<Post("fallback", worker[w].payload)>>]
                 /\ worker' = [worker EXCEPT ![w].pc = "fallback"]
                 /\ UNCHANGED conn
            [] OTHER ->
                 /\ log' = [log EXCEPT ![p] = @ \o ev \o <<Returned("Err")>>]
                 /\ worker' = [worker EXCEPT ![w] = worker_loop("Err")]
                 /\ UNCHANGED conn
    /\ UNCHANGED <<clock, pool_vars, mem_vars, server_vars, default_tree, fallback_tree, command_q, db_worker,
                   writes_applied, lines_sent, gateway_vars, api_in, api_task, queue>>

\* The fallback provider's answer r arrives.
fallback_reply(w, r, connected) ==
    /\ worker[w].pc = "fallback"
    /\ LET p == worker[w].id
           next == after_fallback(r)
           ev == <<Reply("fallback", r)>>
       IN CASE next = "write" ->
                 /\ store_write(w, "Fallback", connected, ev)
                 /\ worker' = [worker EXCEPT ![w] =
                                  worker_loop(IF connected THEN "Ok" ELSE "Err")]
            [] OTHER ->
                 /\ log' = [log EXCEPT ![p] = @ \o ev \o
                               <<Returned(IF next = "return_ok" THEN "Ok" ELSE "Err")>>]
                 /\ worker' = [worker EXCEPT ![w] =
                                  worker_loop(IF next = "return_ok" THEN "Ok" ELSE "Err")]
                 /\ UNCHANGED conn
    /\ UNCHANGED <<clock, pool_vars, mem_vars, server_vars, default_tree, fallback_tree, command_q, db_worker,
                   writes_applied, lines_sent, gateway_vars, api_in, api_task, queue>>

\* Time passes.
tick ==
    /\ clock < MaxClock
    /\ clock' = clock + 1
    /\ UNCHANGED <<pool_vars, mem_vars, server_vars, store_vars, gateway_vars, api_vars>>

\* ------------------------------------------- the pool under concurrent tasks
\* UnixConnectionPool used by several tasks at once, each operation taken one
\* memory access at a time.  current_size is an AtomicUsize; its width is
\* reduced to CounterBits bits.
USIZE == 2 ^ CounterBits
Tasks == 1..NumTasks

\* AtomicUsize::fetch_add(1) and fetch_sub(1): both wrap around
\* (fetch_sub_saturating is the variant that stops at zero).
fetch_add(n) == (n + 1) % USIZE
fetch_sub_saturating(n) == IF n = 0 THEN 0 ELSE n - 1
fetch_sub(n) == (n - 1) % USIZE

NoPool(pool_size) ==
    [st |-> "unbuilt", connections |-> <<>>, current_size |-> 0,
     pool_size |-> pool_size, outcomes |-> <<>>, dialed |-> 0, taken |-> {}]

IdleTask == [pc |-> "idle", conn |-> 0, current |-> 0]

\* The loop of populate_pool from dial i on: a dial that succeeds is pushed
\* and counted, one that fails is recorded in errors.
RECURSIVE populate_from(_, _, _)
populate_from(i, outcomes, acc) ==
    IF i > Len(outcomes) THEN acc
    ELSE populate_from(i + 1, outcomes,
            IF outcomes[i]
            THEN [acc EXCEPT !.connections = Append(@, i),
                             !.current_size = fetch_add(@),
                             !.success_count = @ + 1]
            ELSE [acc EXCEPT !.errors = @ + 1])

\* Variant of the verdict of populate_pool that fails on any failed dial.
populate_verdict_strict(success_count, errors) ==
    IF errors # 0 THEN "failed" ELSE "ready"

\* The end of populate_pool: bail when nothing was dialed and something
\* failed, Ok otherwise.
populate_verdict(success_count, errors) ==
    IF success_count = 0 /\ errors # 0 THEN "failed" ELSE "ready"

\* UnixConnectionPool::new(path, pool_size), outcomes[i] telling whether
\* dial i connects.  The connection of dial i is named i.
UnixConnectionPool_new(pool_size, outcomes) ==
    LET r == populate_from(1, outcomes,
                 [connections |-> <<>>, current_size |-> 0,
                  success_count |-> 0, errors |-> 0])
    IN [st |-> populate_verdict(r.success_count, r.errors),
        connections |-> r.connections, current_size |-> r.current_size,
        pool_size |-> pool_size, outcomes |-> outcomes, dialed |-> 0, taken |-> {}]

pool_new(pool_size, outcomes) ==
    /\ shared_pool.st = "unbuilt"
    /\ shared_pool' = UnixConnectionPool_new(pool_size, outcomes)
    /\ UNCHANGED <<clock, pool_task, store_vars, gateway_vars, api_vars, mem_vars, server_vars>>

\* Variant of SegQueue::pop that leaves the element on the queue.
SegQueue_peek(q) == q

\* What SegQueue::pop leaves of a queue that is not empty.
SegQueue_pop(q) == Tail(q)

\* acquire, first half of try_get_connection: connections.pop().  On None
\* acquire goes on to dial.
acquire_pop(t) ==
    /\ shared_pool.st = "ready"
    /\ pool_task[t].pc = "idle"
    /\ IF shared_pool.connections # <<>>
       THEN /\ shared_pool' = [shared_pool EXCEPT !.connections = SegQueue_pop(@)]
            /\ pool_task' = [pool_task EXCEPT ![t].pc = "fetch_sub",
                                              ![t].conn = Head(shared_pool.connections)]
       ELSE /\ pool_task' = [pool_task EXCEPT ![t].pc = "dial"]
            /\ UNCHANGED shared_pool
    /\ UNCHANGED <<clock, store_vars, gateway_vars, api_vars, mem_vars, server_vars>>

\* Second half of try_get_connection: current_size.fetch_sub(1); acquire
\* wraps the connection in a PooledConnection.
try_get_fetch_sub(t) ==
    /\ pool_task[t].pc = "fetch_sub"
    /\ shared_pool' = [shared_pool EXCEPT !.current_size = fetch_sub(@)]
    /\ pool_task' = [pool_task EXCEPT ![t].pc = "holding"]
    /\ UNCHANGED <<clock, store_vars, gateway_vars, api_vars, mem_vars, server_vars>>

\* acquire on an empty queue: create_connection().await?.  A dial that
\* connects gives a connection with a new name; one that fails ends acquire
\* with the error.
create_connection(t, ok) ==
    /\ pool_task[t].pc = "dial"
    /\ IF ok
       THEN /\ shared_pool.dialed < MaxDials
            /\ shared_pool' = [shared_pool EXCEPT !.dialed = @ + 1]
            /\ pool_task' = [pool_task EXCEPT ![t].pc = "holding",
                                              ![t].conn = PoolCap + shared_pool.dialed + 1]
       ELSE /\ pool_task' = [pool_task EXCEPT ![t] = IdleTask]
            /\ UNCHANGED shared_pool
    /\ UNCHANGED <<clock, store_vars, gateway_vars, api_vars, mem_vars, server_vars>>

\* PooledConnection::take: the caller owns the connection from here on; the
\* wrapper is dropped with conn = None.
take(t) ==
    /\ pool_task[t].pc = "holding"
    /\ shared_pool' = [shared_pool EXCEPT !.taken = @ \cup {pool_task[t].conn}]
    /\ pool_task' = [pool_task EXCEPT ![t] = IdleTask]
    /\ UNCHANGED <<clock, store_vars, gateway_vars, api_vars, mem_vars, server_vars>>

\* Drop of a PooledConnection that was not taken: return_connection begins
\* with current_size.load().
return_load(t) ==
    /\ pool_task[t].pc = "holding"
    /\ pool_task' = [pool_task EXCEPT ![t].pc = "loaded",
                                      ![t].current = shared_pool.current_size]
    /\ UNCHANGED <<clock, shared_pool, store_vars, gateway_vars, api_vars, mem_vars, server_vars>>

\* Variant of the test of return_connection that admits one connection more.
pool_has_room_inclusive(current, pool_size) == current <= pool_size

\* The test of return_connection: current < self.pool_size.
pool_has_room(current, pool_size) == current < pool_size

\* return_connection: push the connection if the loaded count is below
\* pool_size, otherwise let it drop (the stream is closed).
return_push(t) ==
    /\ pool_task[t].pc = "loaded"
    /\ IF pool_has_room(pool_task[t].current, shared_pool.pool_size)
       THEN /\ shared_pool' = [shared_pool EXCEPT
                                  !.connections = Append(@, pool_task[t].conn)]
            /\ pool_task' = [pool_task EXCEPT ![t].pc = "fetch_add", ![t].conn = 0]
       ELSE /\ pool_task' = [pool_task EXCEPT ![t] = IdleTask]
            /\ UNCHANGED shared_pool
    /\ UNCHANGED <<clock, store_vars, gateway_vars, api_vars, mem_vars, server_vars>>

\* return_connection: current_size.fetch_add(1) after the push.
return_fetch_add(t) ==
    /\ pool_task[t].pc = "fetch_add"
    /\ shared_pool' = [shared_pool EXCEPT !.current_size = fetch_add(@)]
    /\ pool_task' = [pool_task EXCEPT ![t] = IdleTask]
    /\ UNCHANGED <<clock, store_vars, gateway_vars, api_vars, mem_vars, server_vars>>

\* close: one turn of `while self.connections.pop().is_some()`; the popped
\* stream is dropped.  The loop ends on None.
close_pop(t) ==
    /\ shared_pool.st = "ready"
    /\ \/ pool_task[t].pc = "closing"
       \/ pool_task[t].pc = "idle" /\ shared_pool.connections # <<>>
    /\ IF shared_pool.connections # <<>>
       THEN /\ shared_pool' = [shared_pool EXCEPT !.connections = SegQueue_pop(@)]
            /\ pool_task' = [pool_task EXCEPT ![t].pc = "close_sub"]
       ELSE /\ pool_task' = [pool_task EXCEPT ![t] = IdleTask]
            /\ UNCHANGED shared_pool
    /\ UNCHANGED <<clock, store_vars, gateway_vars, api_vars, mem_vars, server_vars>>

\* close: current_size.fetch_sub(1) in the body of the loop.
close_fetch_sub(t) ==
    /\ pool_task[t].pc = "close_sub"
    /\ shared_pool' = [shared_pool EXCEPT !.current_size = fetch_sub(@)]
    /\ pool_task' = [pool_task EXCEPT ![t].pc = "closing"]
    /\ UNCHANGED <<clock, store_vars, gateway_vars, api_vars, mem_vars, server_vars>>

\* ----------------------------------------------- the in-memory SummaryStore
\* SummaryStore of src/rinha-db/src/storage.rs: per provider, an ordered map
\* from a time bucket to the Stats of the inserts that fell into it.
ProviderNames == {"Default", "Fallback"}

\* DateTime<Utc> values: a minute count and the second and nanosecond within
\* the minute; each minute is drawn on the minute and half a minute and a
\* fraction after it.
Minutes == 0..MaxMinute
DateTimes ==
    {[minute |-> m, second |-> 0, nanosecond |-> 0] : m \in Minutes}
        \cup {[minute |-> m, second |-> 30, nanosecond |-> 500] : m \in Minutes}

\* Ord for DateTime<Utc>: the order of instants.
DateTime_le(a, b) ==
    \/ a.minute < b.minute
    \/ a.minute = b.minute /\ a.second < b.second
    \/ a.minute = b.minute /\ a.second = b.second /\ a.nanosecond <= b.nanosecond

\* Timelike::with_second / with_nanosecond: the same instant with that field
\* replaced (Some for the value 0 the store passes).
with_second(time, sec) == [time EXCEPT !.second = sec]
with_nanosecond(time, nano) == [time EXCEPT !.nanosecond = nano]

\* A map with key bound to value, whether or not it was bound before.
map_insert(m, key, value) ==
    [k \in DOMAIN m \cup {key} |-> IF k = key THEN value ELSE m[k]]

SummaryStore_default == EmptyMap

\* Variant of the and_modify closure that counts the request and leaves the
\* amount out.
and_modify_count_only(s, amount) ==
    [total_requests |-> s.total_requests + 1, total_amount |-> s.total_amount]

\* The and_modify closure of insert: one more request, amount added.
and_modify(s, amount) ==
    [total_requests |-> s.total_requests + 1,
     total_amount |-> s.total_amount + amount]

\* SummaryStore::insert: the bucket is the time with second and nanosecond
\* zeroed; the provider's map is created when missing; the bucket's Stats
\* are updated, or created with one request.
insert(data, provider, time, amount) ==
    LET bucket == with_nanosecond(with_second(time, 0), 0)
        provider_map == IF provider \in DOMAIN data THEN data[provider] ELSE EmptyMap
        stats == IF bucket \in DOMAIN provider_map
                 THEN and_modify(provider_map[bucket], amount)
                 ELSE [total_requests |-> 1, total_amount |-> amount]
    IN map_insert(data, provider, map_insert(provider_map, bucket, stats))

\* The loop of query over tree.range(from..=to): the Stats of the buckets in
\* S added up.
RECURSIVE range_sum(_, _)
range_sum(tree, S) ==
    IF S = {} THEN [total_requests |-> 0, total_amount |-> 0]
    ELSE LET b == CHOOSE x \in S : \A y \in S : DateTime_le(x, y)
             rest == range_sum(tree, S \ {b})
         IN [total_requests |-> tree[b].total_requests + rest.total_requests,
             total_amount |-> tree[b].total_amount + rest.total_amount]

\* BTreeMap::range panics when the start of the range is above its end;
\* query calls it once for each provider that has a map.
range_panics(data, from, to) == ~DateTime_le(from, to) /\ DOMAIN data # {}

\* SummaryStore::query: for each provider that has a map, the sum over the
\* buckets within from..=to.
query(data, from, to) ==
    [provider \in DOMAIN data |->
        range_sum(data[provider],
                  {b \in DOMAIN data[provider] :
                      DateTime_le(from, b) /\ DateTime_le(b, to)})]

\* A caller inserts one payment.
SummaryStore_insert(provider, time, amount) ==
    /\ BagCardinality(insert_calls) < MaxInserts
    /\ summary_store' = insert(summary_store, provider, time, amount)
    /\ insert_calls' = insert_calls (+)
           SetToBag({[provider |-> provider, time |-> time, amount |-> amount]})
    /\ returned' = [call |-> "insert"]
    /\ UNCHANGED <<clock, pool_vars, store_vars, gateway_vars, api_vars, server_vars>>

\* A caller queries a range and gets the result, or the call panics.
SummaryStore_query(from, to) ==
    /\ returned' = IF range_panics(summary_store, from, to)
                   THEN [call |-> "panic", from |-> from, to |-> to]
                   ELSE [call |-> "query", from |-> from, to |-> to,
                         result |-> query(summary_store, from, to)]
    /\ UNCHANGED <<clock, pool_vars, summary_store, insert_calls,
                   store_vars, gateway_vars, api_vars, server_vars>>

\* ------------------------------------------------ the single-process server
\* src/src/main.rs: one process that takes POST /payments over HTTP, hands
\* payments to NUM_WORKERS workers through a round-robin dispatcher and
\* records them in a table through one database task.  No receiver of its
\* channels is ever dropped, so no send on them fails.
Requests == 1..MaxRequests
ServerWorkers == 0..(NUM_WORKERS - 1)

NoRequest == [pc |-> "none", payload |-> 0, response |-> "none", status |-> 0]

\* exec_payment up to its first await: build the PaymentMessage from the
\* payload and the clock, and send it on tx.  Requests are numbered in the
\* order they arrive.
server_exec_payment(r, payload) ==
    /\ http_req[r].pc = "none"
    /\ \A q \in Requests : q < r => http_req[q].pc # "none"
    /\ Len(main_rx) < MAIN_CHANNEL_CAP
    /\ main_rx' = Append(main_rx, [req |-> r, payment |-> payload,
                                   timestamp |-> to_rfc3339(clock)])
    /\ http_req' = [http_req EXCEPT ![r] = [pc |-> "enqueued", payload |-> payload,
                                            response |-> "none", status |-> 0]]
    /\ UNCHANGED <<clock, pool_vars, mem_vars, store_vars, gateway_vars, api_vars,
                   db_rx, worker_rxs, dispatch_i, payments_table, worker_got>>

\* exec_payment after the message is enqueued: send InsertPayment on db_tx
\* with the oneshot sender for this request.
server_exec_payment_insert(r) ==
    /\ http_req[r].pc = "enqueued"
    /\ Len(db_rx) < DB_CHANNEL_CAP
    /\ db_rx' = Append(db_rx, [correlation_id |-> http_req[r].payload.correlation_id,
                               amount |-> http_req[r].payload.amount,
                               timestamp |-> to_rfc3339(clock),
                               response |-> r])
    /\ http_req' = [http_req EXCEPT ![r].pc = "waiting"]
    /\ UNCHANGED <<clock, pool_vars, mem_vars, store_vars, gateway_vars, api_vars,
                   main_rx, worker_rxs, dispatch_i, payments_table, worker_got>>

\* The match on response_rx.await: ACCEPTED for Ok(Ok(_)),
\* INTERNAL_SERVER_ERROR otherwise.
status_of(response) == IF response = "Ok" THEN 202 ELSE 500

\* exec_payment once the database task has answered: return the status.
server_exec_payment_answer(r) ==
    /\ http_req[r].pc = "waiting"
    /\ http_req[r].response # "none"
    /\ http_req' = [http_req EXCEPT ![r].pc = "done",
                                    ![r].status = status_of(http_req[r].response)]
    /\ UNCHANGED <<clock, pool_vars, mem_vars, store_vars, gateway_vars, api_vars,
                   main_rx, db_rx, worker_rxs, dispatch_i, payments_table, worker_got>>

\* The dispatcher task: take the next message from main_rx and send it to
\* worker i % NUM_WORKERS, then count.
dispatcher ==
    /\ main_rx # <<>>
    /\ LET w == dispatch_i % NUM_WORKERS
       IN /\ Len(worker_rxs[w]) < WORKER_CHANNEL_CAP
          /\ worker_rxs' = [worker_rxs EXCEPT ![w] = Append(@, Head(main_rx))]
    /\ main_rx' = Tail(main_rx)
    /\ dispatch_i' = dispatch_i + 1
    /\ UNCHANGED <<clock, pool_vars, mem_vars, store_vars, gateway_vars, api_vars,
                   http_req, db_rx, payments_table, worker_got>>

\* INSERT INTO payments: correlation_id is the PRIMARY KEY, so a row whose
\* correlation_id is in the table already is refused.
sqlite_insert(table, correlation_id) ==
    IF correlation_id \in table THEN "Err" ELSE "Ok"

\* The database task on InsertPayment: execute the INSERT and send its
\* result on the request's oneshot channel.
db_task_insert ==
    /\ db_rx # <<>>
    /\ LET op == Head(db_rx)
           result == sqlite_insert(payments_table, op.correlation_id)
       IN /\ payments_table' = IF result = "Ok"
                               THEN payments_table \cup {op.correlation_id}
                               ELSE payments_table
          /\ http_req' = [http_req EXCEPT ![op.response].response = result]
    /\ db_rx' = Tail(db_rx)
    /\ UNCHANGED <<clock, pool_vars, mem_vars, store_vars, gateway_vars, api_vars,
                   main_rx, worker_rxs, dispatch_i, worker_got>>

\* Worker w receives its next message and calls process_payment with it.
server_worker_recv(w) ==
    /\ worker_rxs[w] # <<>>
    /\ worker_got' = [worker_got EXCEPT ![w] = Append(@, Head(worker_rxs[w]))]
    /\ worker_rxs' = [worker_rxs EXCEPT ![w] = Tail(@)]
    /\ UNCHANGED <<clock, pool_vars, mem_vars, store_vars, gateway_vars, api_vars,
                   http_req, main_rx, db_rx, dispatch_i, payments_table>>

\* ------------------------------------------------------------ specifications
Init ==
    /\ clock = 0
    /\ default_tree = NewTree
    /\ fallback_tree = NewTree
    /\ command_q = <<>>
    /\ db_worker = "running"
    /\ conn = [c \in ConnIds |-> IF c \in PoolConns THEN NewConn ELSE NoConn]
    /\ writes_applied = 0
    /\ lines_sent = 0
    /\ api_pool = NewPool([i \in 1..PoolSize |-> i])
    /\ db_pool = NewPool([i \in 1..PoolSize |-> i])
    /\ posted = 0
    /\ gw_status = [p \in Payments |-> "none"]
    /\ gw_summary = NoSummary
    /\ gw_purge = [requested |-> FALSE, status |-> "none", mark |-> 0]
    /\ api_in = [c \in ApiConnIds |-> <<>>]
    /\ api_task = [c \in ApiConnIds |-> "running"]
    /\ queue = <<>>
    /\ worker = [w \in Workers |-> Idle]
    /\ log = [p \in Payments |-> <<>>]
    /\ shared_pool = NoPool(PoolCap)
    /\ pool_task = [t \in Tasks |-> IdleTask]
    /\ summary_store = SummaryStore_default
    /\ insert_calls = EmptyBag
    /\ returned = [call |-> "none"]
    /\ http_req = [r \in Requests |-> NoRequest]
    /\ main_rx = <<>>
    /\ db_rx = <<>>
    /\ worker_rxs = [w \in ServerWorkers |-> <<>>]
    /\ dispatch_i = 0
    /\ payments_table = {}
    /\ worker_got = [w \in ServerWorkers |-> <<>>]

\* The store's side of a Write: the connection's read loop and the command
\* loop's Write arm.
StoreWriteStep ==
    \/ \E c \in ConnIds : handle_client_line(c)
    \/ \E c \in ConnIds : handle_client_eof(c)
    \/ database_worker_write

\* The store serving Writes and Reads.
StoreStep ==
    \/ StoreWriteStep
    \/ \E c \in ConnIds : writer_task(c)
    \/ database_worker_read

\* The payment path of the cluster: gateway, API, providers and store.
Next ==
    \/ tick
    \/ \E payload \in PaymentDTOs : exec_payment(payload)
    \/ \E c \in ApiConnIds : accept_task(c)
    \/ \E w \in Workers : worker_recv(w)
    \/ \E w \in Workers, r \in Replies, connected \in BOOLEAN : default_reply(w, r, connected)
    \/ \E w \in Workers, r \in Replies, connected \in BOOLEAN : fallback_reply(w, r, connected)
    \/ StoreWriteStep

Spec == Init /\ [][Next]_vars

\* The API's part of the payment path: requests arrive, accept tasks read
\* them, workers process them; what the store does with the Writes has no
\* part in it.
NextApi ==
    \/ \E payload \in PaymentDTOs : exec_payment(payload)
    \/ \E c \in ApiConnIds : accept_task(c)
    \/ \E w \in Workers : worker_recv(w)
    \/ \E w \in Workers, r \in Replies, connected \in BOOLEAN : default_reply(w, r, connected)
    \/ \E w \in Workers, r \in Replies, connected \in BOOLEAN : fallback_reply(w, r, connected)

\* The same with every task of the API scheduled fairly and every provider
\* call returning: an accept task with a line to read reads it, an idle
\* worker with a payment on the queue receives it, and a worker waiting for
\* a provider gets an answer.
SpecLive ==
    /\ Init /\ [][NextApi]_vars
    /\ WF_vars(\E c \in ApiConnIds : accept_task(c))
    /\ WF_vars(\E w \in Workers : worker_recv(w))
    /\ WF_vars(\E w \in Workers, r \in Replies, connected \in BOOLEAN :
                  default_reply(w, r, connected))
    /\ WF_vars(\E w \in Workers, r \in Replies, connected \in BOOLEAN :
                  fallback_reply(w, r, connected))

\* The cluster with its other two endpoints, summaries and purge requests,
\* serving at most MaxSummaryPayments payments.
NextSummary ==
    \/ tick
    \/ \E payload \in PaymentDTOs :
          posted < MaxSummaryPayments /\ exec_payment(payload)
    \/ \E c \in ApiConnIds : accept_task(c)
    \/ \E w \in Workers : worker_recv(w)
    \/ \E w \in Workers, r \in Replies, connected \in BOOLEAN : default_reply(w, r, connected)
    \/ \E w \in Workers, r \in Replies, connected \in BOOLEAN : fallback_reply(w, r, connected)
    \/ StoreStep
    \/ \E f \in QueryParams, t \in QueryParams : get_payments_summary_send(f, t)
    \/ get_payments_summary_recv
    \/ get_payments_summary_acquire_fails
    \/ purge_payments_request

SpecSummary == Init /\ [][NextSummary]_vars

\* The store daemon alone, driven by a client that writes any lines on the
\* first connection the store accepted.
NextStore ==
    \/ StoreStep
    \/ database_worker_read_dropped
    \/ database_worker_purge
    \/ \E line \in ClientLines : client_send(StoreClient, line)
    \/ client_close(StoreClient)

SpecStore == Init /\ [][NextStore]_vars

\* The two ingress sockets, each with a client that writes well-formed and
\* malformed lines; no worker takes payments off the queue.
IngressStoreLines ==
    {BlankLine, BadLine, NonUtf8Line, WriteMsg(to_rfc3339(0), 1, "Default")}

IngressApiLines == {BlankLine, BadLine, NonUtf8Line, ClientPayment}

NextIngress ==
    \/ \E line \in IngressStoreLines : client_send(StoreClient, line)
    \/ client_close(StoreClient)
    \/ StoreWriteStep
    \/ \E c \in ConnIds : handle_client_read_error(c)
    \/ \E line \in IngressApiLines :
          Len(queue) < MaxLines /\ api_client_send(ApiClient, line)
    \/ \E c \in ApiConnIds : accept_task(c)
    \/ \E c \in ApiConnIds : accept_task_read_error(c)

SpecIngress == Init /\ [][NextIngress]_vars

\* The API fed faster than its workers work: a client keeps writing payments
\* on its connection, the workers take one payment each and are then held by
\* a provider that does not answer.
NextQueue ==
    \/ api_client_send(ApiClient, ClientPayment)
    \/ accept_task(ApiClient)
    \/ \E w \in Workers : worker_recv(w)

SpecQueue == Init /\ [][NextQueue]_vars

\* One connection pool built and then used by NumTasks tasks at once, each
\* acquiring, dropping or taking connections and closing the pool in any
\* order.
NextPool ==
    \/ \E size \in 1..PoolCap : \E outcomes \in [1..size -> BOOLEAN] :
          pool_new(size, outcomes)
    \/ \E t \in Tasks : acquire_pop(t)
    \/ \E t \in Tasks : try_get_fetch_sub(t)
    \/ \E t \in Tasks, ok \in BOOLEAN : create_connection(t, ok)
    \/ \E t \in Tasks : take(t)
    \/ \E t \in Tasks : return_load(t)
    \/ \E t \in Tasks : return_push(t)
    \/ \E t \in Tasks : return_fetch_add(t)
    \/ \E t \in Tasks : close_pop(t)
    \/ \E t \in Tasks : close_fetch_sub(t)

SpecPool == Init /\ [][NextPool]_vars

\* The store with the frames the cluster sends it: Writes keyed as the
\* dispatcher generates keys, Reads bounded as the gateway supplies bounds
\* (a client's query parameter passed on unchanged, or a default).
QueryBounds == {rfc3339_z(t) : t \in Instants} \cup {DEFAULT_FROM, DEFAULT_TO}

RangeLines ==
    {WriteMsg(k, 1, "Default") : k \in Keys}
        \cup {ReadMsg(f, t) : f \in QueryBounds, t \in QueryBounds}

NextRange ==
    \/ \E line \in RangeLines : client_send(StoreClient, line)
    \/ client_close(StoreClient)
    \/ StoreStep

SpecRange == Init /\ [][NextRange]_vars

\* The in-memory SummaryStore under any calls.
NextMem ==
    \/ \E provider \in ProviderNames, time \in DateTimes, amount \in Amounts :
          SummaryStore_insert(provider, time, amount)
    \/ \E from \in DateTimes, to \in DateTimes : SummaryStore_query(from, to)

SpecMem == Init /\ [][NextMem]_vars

\* The payment path of the single-process server.
NextServer ==
    \/ \E r \in Requests, payload \in PaymentDTOs : server_exec_payment(r, payload)
    \/ \E r \in Requests : server_exec_payment_insert(r)
    \/ \E r \in Requests : server_exec_payment_answer(r)
    \/ dispatcher
    \/ db_task_insert
    \/ \E w \in ServerWorkers : server_worker_recv(w)

SpecServer == Init /\ [][NextServer]_vars

\* ================================================================ properties
\* ---- helpers over a payment's log
Posts(p, provider) ==
    {i \in DOMAIN log[p] : log[p][i].ev = "post" /\ log[p][i].provider = provider}

Replied(p, provider, results) ==
    \E i \in DOMAIN log[p] :
        /\ log[p][i].ev = "reply"
        /\ log[p][i].provider = provider
        /\ log[p][i].result \in results

Writes(p) == {i \in DOMAIN log[p] : log[p][i].ev = "write"}

HasReturned(p) == \E i \in DOMAIN log[p] : log[p][i].ev = "return"

Failures == {"non2xx", "transport"}

\* Nothing is in flight anywhere in the cluster.
Quiescent ==
    /\ queue = <<>>
    /\ \A c \in ApiConnIds : api_in[c] = <<>>
    /\ \A w \in Workers : worker[w].pc = "idle"
    /\ command_q = <<>>
    /\ \A c \in ConnIds : conn[c].inbuf = <<>>

TreeOf(provider) == IF provider = "default" THEN default_tree ELSE fallback_tree
OtherOf(provider) == IF provider = "default" THEN fallback_tree ELSE default_tree

\* C1: once nothing is in flight, every payment that a provider answered 2xx
\* and whose Write the worker sent has its record (key = the requested_at it
\* was sent with, value = its amount) in that provider's partition and no
\* record under its key in the other one.
C1_OneRecordPerSuccess ==
    Quiescent =>
        \A p \in Payments : \A provider \in {"default", "fallback"} :
            (Replied(p, provider, {"2xx"}) /\ Writes(p) # {}) =>
                LET body == log[p][1].body
                IN /\ body.requested_at \in DOMAIN TreeOf(provider).kv
                   /\ TreeOf(provider).kv[body.requested_at] = body.amount
                   /\ body.requested_at \notin DOMAIN OtherOf(provider).kv

\* C2: every provider POST of a payment carries the requested_at computed
\* when the worker took the payment, and the Write sent to the store has that
\* same string as its key.
C2_RequestedAtFixed ==
    /\ \A p \in Payments : \A i \in DOMAIN log[p] :
          /\ log[p][i].ev = "post" =>
                log[p][i].body.requested_at = log[p][1].body.requested_at
          /\ log[p][i].ev = "write" =>
                log[p][i].msg.key = log[p][1].body.requested_at
    /\ \A w \in Workers :
          worker[w].pc # "idle" =>
              worker[w].now = log[worker[w].id][1].body.requested_at

\* A payment was sent to both providers and written to the store after the
\* clock had moved on from its requested_at.
C2_Witness ==
    \E p \in Payments :
        /\ Posts(p, "default") # {} /\ Posts(p, "fallback") # {} /\ Writes(p) # {}
        /\ log[p][1].body.requested_at # to_rfc3339(clock)

\* ---- what a Read must answer, computed from the partition's contents
KeysBetween(tree, from, to) ==
    {k \in DOMAIN tree.kv : (k = from \/ LexLess(from, k)) /\ (k = to \/ LexLess(k, to))}

RECURSIVE SumOf(_, _)
SumOf(f, S) ==
    IF S = {} THEN 0
    ELSE LET k == CHOOSE x \in S : TRUE IN f[k] + SumOf(f, S \ {k})

Expected(tree, from, to) ==
    [totalRequests |-> Cardinality(KeysBetween(tree, from, to)),
     totalAmount |-> SumOf(tree.kv, KeysBetween(tree, from, to))]

\* The command loop takes a Read this step and queues its response.
ReadAnswered ==
    /\ command_q # <<>>
    /\ Head(command_q).type = "Read"
    /\ command_q' = Tail(command_q)
    /\ conn[Head(command_q).response_tx].writer = "running"
    /\ db_worker' = "running"

LastOf(s) == s[Len(s)]

\* C3: a Read with from <= to answers, for each partition, the number of its
\* keys k with from <= k <= to and the sum of their values.
C3_ReadCountsInclusiveRange ==
    [][(ReadAnswered /\ LexLeq(Head(command_q).from, Head(command_q).to)) =>
          LET cmd == Head(command_q)
              response == LastOf(conn'[cmd.response_tx].response_q)
          IN /\ response.default = Expected(default_tree, cmd.from, cmd.to)
             /\ response.fallback = Expected(fallback_tree, cmd.from, cmd.to)]_vars

\* A client has read a response that counts two records of the default
\* partition: both keys, the bounds of the range included.
C3_Witness ==
    \E c \in ConnIds : \E i \in DOMAIN conn[c].out :
        conn[c].out[i].default.totalRequests = 2

\* C4: POST /purge-payments at the gateway purges the store: a summary
\* requested after it has been answered returns zeros for both partitions as
\* long as the store has applied no Write since.
C4_SummaryAfterPurgeIsZero ==
    [][(/\ gw_summary.st = "waiting"
        /\ gw_summary.after_purge
        /\ gw_summary'.st = "done"
        /\ writes_applied = gw_purge.mark) =>
            gw_summary'.response = ZeroSummary]_vars

\* The command loop takes a Write this step.
WriteTaken ==
    /\ command_q # <<>>
    /\ Head(command_q).type = "Write"
    /\ command_q' = Tail(command_q)

\* C5: a Write applied after a Purge is stored: its key is in the partition
\* it names, with its value, and so is counted by a Read whose range holds it.
C5_WriteAfterPurgeIsStored ==
    [][(WriteTaken /\ default_tree.dropped /\ fallback_tree.dropped) =>
          LET cmd == Head(command_q)
              tree == IF cmd.tree = "Fallback" THEN fallback_tree' ELSE default_tree'
          IN /\ cmd.key \in DOMAIN tree.kv
             /\ tree.kv[cmd.key] = cmd.value]_vars

C8_FallbackAfterAnyDefaultFailure ==
    \A p \in Payments :
        (HasReturned(p) /\ Replied(p, "default", Failures)) =>
            /\ Cardinality(Posts(p, "fallback")) = 1
            /\ Replied(p, "fallback", {"2xx"}) =>
                  \E i \in Writes(p) : log[p][i].msg.tree = "Fallback"

BothFailed(p) ==
    Replied(p, "default", Failures) /\ Replied(p, "fallback", Failures)

\* C9: a payment that both providers failed is dropped: no Write is sent for
\* it, no store connection is opened for it, and it is neither back on the
\* queue nor with a worker.
C9_DroppedWhenBothFail ==
    \A p \in Payments :
        BothFailed(p) =>
            /\ Writes(p) = {}
            /\ conn[WorkerConn(p)].st = "none"
            /\ \A i \in DOMAIN queue : queue[i].id # p
            /\ \A c \in ApiConnIds : \A i \in DOMAIN api_in[c] : api_in[c][i].id # p
            /\ \A w \in Workers : worker[w].pc # "idle" => worker[w].id # p

\* Both providers failed a payment while another payment's record is in the
\* store.
C9_Witness ==
    \E p \in Payments :
        /\ BothFailed(p)
        /\ DOMAIN default_tree.kv # {}

\* C10: the step that serves POST /payments answers 200 with the frame
\* written to an API connection and with no provider call and no store write
\* made for that payment yet.
C10_AnswerBeforeProcessing ==
    [][posted' = posted + 1 =>
          LET p == posted'
          IN /\ gw_status'[p] = "200"
             /\ \E c \in ApiConnIds : \E i \in DOMAIN api_in'[c] : api_in'[c][i].id = p
             /\ log'[p] = <<>>
             /\ conn'[WorkerConn(p)].st = "none"]_vars

\* A payment answered 200 was dropped afterwards.
C10_Witness ==
    \E p \in Payments : gw_status[p] = "200" /\ BothFailed(p) /\ HasReturned(p)

\* C11: a GET /payments-summary whose acquire failed is answered with status
\* 500.
C11_AcquireFailureAnswers500 ==
    gw_summary.st = "acquire_failed" => gw_summary.status = "500"

\* The API instances of a deployment with two of them: /tmp/api-1.sock and
\* /tmp/api-2.sock.
ApiInstances == {1, 2}

\* C12: the k-th POST /payments (counting from 0) writes its frame to a
\* connection of instance (k mod number of instances) + 1, so consecutive
\* POSTs alternate between two instances.
C12_RoundRobinOverInstances ==
    [][posted' = posted + 1 =>
          \A c \in ApiConnIds :
              api_in'[c] # api_in[c] =>
                  InstanceOf(c) = (posted % Cardinality(ApiInstances)) + 1]_vars

\* Lines that are blank or are not JSON for the expected message.
Malformed == {BlankLine, BadLine, NonUtf8Line}

\* C13: on either ingress socket, the step that reads a malformed line
\* leaves the connection open and changes nothing else: no command is issued
\* to the store's command loop, no payment is enqueued.
C13_MalformedLineIsSkipped ==
    [][/\ \A c \in ConnIds :
            (/\ conn[c].st = "open"
             /\ conn[c].inbuf # <<>>
             /\ Head(conn[c].inbuf) \in Malformed
             /\ conn'[c].inbuf = Tail(conn[c].inbuf)) =>
                /\ conn'[c].st = "open"
                /\ command_q' = command_q
       /\ \A c \in ApiConnIds :
            (/\ api_task[c] = "running"
             /\ api_in[c] # <<>>
             /\ Head(api_in[c]) \in Malformed
             /\ api_in'[c] = Tail(api_in[c])) =>
                /\ api_task'[c] = "running"
                /\ queue' = queue]_vars

\* The response lines the store has written on connection c or holds ready
\* for its writer task.
Produced(c) == Len(conn[c].out) + Len(conn[c].response_q)

\* The command loop takes a Read that came from connection c this step.
ReadTakenFor(c) ==
    /\ command_q # <<>>
    /\ Head(command_q).type = "Read"
    /\ Head(command_q).response_tx = c
    /\ command_q' = Tail(command_q)

\* C14: as long as no Purge has been applied, on every store connection the
\* response lines grow by exactly one in a step that processes a Read frame
\* of that connection and do not change in any other step (a Write or
\* anything else).
C14_OneResponsePerRead ==
    [][(~default_tree.dropped /\ ~fallback_tree.dropped) =>
          \A c \in ConnIds :
              Produced(c)' = Produced(c) + (IF ReadTakenFor(c) THEN 1 ELSE 0)]_vars

ChronoKeys(tree, from, to) ==
    {k \in DOMAIN tree.kv :
        instant_of(from) <= instant_of(k) /\ instant_of(k) <= instant_of(to)}

\* C16: a Read answers, for each partition, the number of records whose key
\* denotes an instant between the instants of from and to, both included.
C16_RangeIsChronological ==
    [][ReadAnswered =>
          LET cmd == Head(command_q)
              response == LastOf(conn'[cmd.response_tx].response_q)
          IN /\ response.default.totalRequests =
                    Cardinality(ChronoKeys(default_tree, cmd.from, cmd.to))
             /\ response.fallback.totalRequests =
                    Cardinality(ChronoKeys(fallback_tree, cmd.from, cmd.to))]_vars

PurgeTaken ==
    /\ command_q # <<>>
    /\ Head(command_q).type = "Purge"
    /\ command_q' = Tail(command_q)

\* The Write at the head of the command queue is taken and names the
\* partition tr ("Default" or "Fallback") and the key k.
WriteTakenOn(tr, k) ==
    /\ WriteTaken
    /\ Head(command_q).tree = tr
    /\ Head(command_q).key = k

\* What one step may do to a partition: a Write on a key it holds replaces
\* the value and keeps the set of keys; a value changes only by a Write on
\* its key; a key disappears only by a Purge.
RecordsKept(tr, before, after) ==
    /\ \A k \in DOMAIN before.kv :
          /\ WriteTakenOn(tr, k) =>
                /\ DOMAIN after.kv = DOMAIN before.kv
                /\ after.kv[k] = Head(command_q).value
          /\ k \notin DOMAIN after.kv => PurgeTaken
          /\ (k \in DOMAIN after.kv /\ after.kv[k] # before.kv[k]) => WriteTakenOn(tr, k)

\* C17: a Write whose key is already in the partition it names replaces
\* the stored value with its amount and leaves the number of records of the
\* partition unchanged; no other step changes a stored value, and only a
\* Purge removes a record.
C17_WriteOverwritesInPlace ==
    [][/\ RecordsKept("Default", default_tree, default_tree')
       /\ RecordsKept("Fallback", fallback_tree, fallback_tree')]_vars

\* Two Writes were applied to live partitions and one record is stored: the
\* second Write named the key of the first.
C17_Witness ==
    /\ ~default_tree.dropped /\ ~fallback_tree.dropped
    /\ writes_applied = 2
    /\ Cardinality(DOMAIN default_tree.kv) + Cardinality(DOMAIN fallback_tree.kv) = 1

\* The provider that answered payment p with 2xx and the key its record was
\* written under.
RecordOf(p) ==
    <<CHOOSE provider \in {"default", "fallback"} : Replied(p, provider, {"2xx"}),
      log[p][1].body.requested_at>>

Succeeded(p) ==
    /\ \E provider \in {"default", "fallback"} : Replied(p, provider, {"2xx"})
    /\ Writes(p) # {}

\* C18: once nothing is in flight, two accepted payments with the same
\* correlation_id have each been POSTed to a provider, and if each was
\* answered 2xx and written, each has a record of its own: they do not share
\* a partition and key.
C18_NoDedupeById ==
    Quiescent =>
        \A p \in 1..posted : \A q \in 1..posted :
            (p < q /\ gw_status[p] = "200" /\ gw_status[q] = "200") =>
                /\ Posts(p, "default") # {}
                /\ Posts(q, "default") # {}
                /\ (/\ log[p][1].body.correlation_id = log[q][1].body.correlation_id
                    /\ Succeeded(p)
                    /\ Succeeded(q)) => RecordOf(p) # RecordOf(q)

\* The accept task of connection c has a parsed payment to enqueue.
HasPaymentToEnqueue(c) ==
    /\ api_task[c] = "running"
    /\ api_in[c] # <<>>
    /\ is_utf8(Head(api_in[c]))
    /\ parses_as_payment(Head(api_in[c]))

C20_FlushTaskRuns ==
    \E task \in store_tasks : task[1] = "flush_task"

IsPost(e, provider) == e.ev = "post" /\ e.provider = provider
IsReply(e, provider, results) ==
    e.ev = "reply" /\ e.provider = provider /\ e.result \in results

\* The provider whose 2xx a Write frame for the partition tree follows.
ProviderOf(tree) == IF tree = "Default" THEN "default" ELSE "fallback"

\* C21: in the steps taken for one payment, the first is a POST to the
\* default provider; a POST to the fallback provider comes only after a
\* failed answer of the default provider and never after a 2xx of it; a
\* store Write comes directly after a 2xx answer of the provider whose
\* partition it names; and no POST comes after the store Write.
C21_DefaultFirstSequence ==
    \A p \in Payments :
        /\ log[p] # <<>> => IsPost(log[p][1], "default")
        /\ \A i \in DOMAIN log[p] :
              /\ IsPost(log[p][i], "fallback") =>
                    /\ \E j \in 1..(i - 1) : IsReply(log[p][j], "default", Failures)
                    /\ \A j \in 1..(i - 1) : ~IsReply(log[p][j], "default", {"2xx"})
              /\ log[p][i].ev = "write" =>
                    /\ i > 1
                    /\ IsReply(log[p][i - 1], ProviderOf(log[p][i].msg.tree), {"2xx"})
              /\ log[p][i].ev = "post" =>
                    \A j \in 1..(i - 1) : log[p][j].ev # "write"

\* A payment went the whole way: default failed, fallback answered 2xx, the
\* Write was sent.
C21_Witness ==
    \E p \in Payments :
        /\ Replied(p, "default", {"non2xx"})
        /\ Replied(p, "fallback", {"2xx"})
        /\ Writes(p) # {}

\* The workers that hold payment p.
HeldBy(p) == {w \in Workers : worker[w].pc # "idle" /\ worker[w].id = p}

\* The places of the sequence q where payment p waits.
WaitingIn(q, p) == {i \in DOMAIN q : "id" \in DOMAIN q[i] /\ q[i].id = p}

\* C22: a payment the gateway forwarded is in exactly one place: unread on
\* its connection, on the queue, with one worker, or done (its
\* process_payment returned); it is POSTed to the default provider at most
\* once; and a step that takes the head of the queue hands it to exactly one
\* worker, which was idle.
C22_OneWorkerPerPayment ==
    /\ [](\A p \in 1..posted :
            /\ Cardinality(HeldBy(p)) + Cardinality(WaitingIn(queue, p))
                  + Cardinality({c \in ApiConnIds : WaitingIn(api_in[c], p) # {}})
                  + (IF HasReturned(p) THEN 1 ELSE 0) = 1
            /\ \A c \in ApiConnIds : Cardinality(WaitingIn(api_in[c], p)) <= 1
            /\ Cardinality(Posts(p, "default")) <= 1)
    /\ [][(queue # <<>> /\ queue' = Tail(queue)) =>
            \E w \in Workers :
                /\ worker[w].pc = "idle"
                /\ {v \in Workers : worker'[v].pc # "idle"
                                        /\ worker'[v].id = Head(queue).id} = {w}
                /\ \A v \in Workers \ {w} : worker'[v] = worker[v]]_vars

\* Two workers are busy at once, each with a payment of its own.
C22_Witness ==
    /\ \A w \in Workers : worker[w].pc # "idle"
    /\ \E v \in Workers : \E w \in Workers : worker[v].id # worker[w].id

\* C23: a payment on the queue is eventually done (its process_payment
\* returned, with the payment stored or dropped), and a worker that holds a
\* payment is eventually back at the head of its loop, ready for the next
\* one, whether process_payment returned Ok or Err.
C23_EveryPaymentTerminates ==
    /\ \A p \in Payments : (WaitingIn(queue, p) # {}) ~> HasReturned(p)
    /\ \A w \in Workers : (worker[w].pc # "idle") ~> (worker[w].pc = "idle")

\* Both payments are done, the first with an error, and the workers are idle.
C23_Witness ==
    /\ \A p \in Payments : HasReturned(p)
    /\ LastOf(log[1]) = Returned("Err")
    /\ \A w \in Workers : worker[w].pc = "idle"

\* The partition named tr after command cmd was applied to it.
Applied(cmd, tr, tree) ==
    IF cmd.type = "Write" /\ cmd.tree = tr THEN tree_insert(tree, cmd.key, cmd.value)
    ELSE IF cmd.type = "Purge" THEN drop_tree(tree)
    ELSE tree

\* C24: the command channel is a queue: a step either appends one command
\* to it or takes its head, and never reorders it; the partitions change only
\* in a step that takes the head of the channel, and then they are exactly
\* what that one command makes of them.
C24_SingleWriterInOrder ==
    [][/\ command_q' # command_q =>
            \/ command_q # <<>> /\ command_q' = Tail(command_q)
            \/ Len(command_q') = Len(command_q) + 1
                  /\ SubSeq(command_q', 1, Len(command_q)) = command_q
       /\ (command_q # <<>> /\ command_q' = Tail(command_q)) =>
            /\ default_tree' = Applied(Head(command_q), "Default", default_tree)
            /\ fallback_tree' = Applied(Head(command_q), "Fallback", fallback_tree)
       /\ (default_tree' # default_tree \/ fallback_tree' # fallback_tree) =>
            command_q # <<>> /\ command_q' = Tail(command_q)]_vars

\* Two Writes that arrived on two connections are on the channel together.
C24_Witness ==
    /\ Len(command_q) = 2
    /\ command_q[1] # command_q[2]
    /\ \E c \in ConnIds : \E d \in ConnIds :
          c # d /\ conn[c].st # "none" /\ conn[d].st # "none"
              /\ conn[c].inbuf = <<>> /\ conn[d].inbuf = <<>>
              /\ c \notin PoolConns /\ d \notin PoolConns

\* Task t has a connection in hand: popped or dialed, and not yet pushed
\* back, dropped or taken.
Holds(t) == pool_task[t].pc \in {"fetch_sub", "holding", "loaded"}

Range(q) == {q[i] : i \in DOMAIN q}

\* C25: acquire has no step that waits for another task: an idle task can
\* always begin it and a task inside it can always go on; it hands out the
\* head of the idle queue when there is one and dials otherwise; it ends
\* without a connection only when the dial failed; and a connection in one
\* task's hands is in no other task's hands and not on the idle queue.
C25_AcquireNeverWaits ==
    /\ [](\A t \in Tasks :
            /\ (shared_pool.st = "ready" /\ pool_task[t].pc = "idle") =>
                  ENABLED acquire_pop(t)
            /\ pool_task[t].pc = "fetch_sub" => ENABLED try_get_fetch_sub(t)
            /\ pool_task[t].pc = "dial" =>
                  ENABLED (\E ok \in BOOLEAN : create_connection(t, ok)))
    /\ [][\A t \in Tasks :
            /\ (pool_task[t].pc = "idle" /\ pool_task'[t].pc \in {"fetch_sub", "dial"}) =>
                  IF shared_pool.connections # <<>>
                  THEN /\ pool_task'[t].pc = "fetch_sub"
                       /\ pool_task'[t].conn = Head(shared_pool.connections)
                  ELSE pool_task'[t].pc = "dial"
            /\ (pool_task[t].pc \in {"fetch_sub", "dial"} /\ pool_task'[t].pc = "idle") =>
                  pool_task[t].pc = "dial"]_vars
    /\ [](\A t \in Tasks : Holds(t) =>
            /\ pool_task[t].conn \notin Range(shared_pool.connections)
            /\ \A u \in Tasks \ {t} : Holds(u) => pool_task[u].conn # pool_task[t].conn)

\* More connections are borrowed than the pool's size: every task holds one
\* of a pool of size 1.
C25_Witness ==
    /\ shared_pool.pool_size = 1
    /\ \A t \in Tasks : pool_task[t].pc = "holding"

\* No task is between a push or pop of the idle queue and the update of the
\* counter that goes with it.
Settled ==
    \A t \in Tasks : pool_task[t].pc \notin {"fetch_sub", "fetch_add", "close_sub"}

\* C26: the drop of a connection that was not taken reads the idle count
\* (the number of idle connections, when no other operation is under way)
\* and then puts the connection at the back of the idle queue if that count
\* is below pool_size and closes it otherwise; a connection that was taken
\* is never on the idle queue nor in a borrower's hands again.
C26_DropReturnsBelowCap ==
    /\ [][\A t \in Tasks :
            /\ (pool_task[t].pc = "holding" /\ pool_task'[t].pc = "loaded" /\ Settled) =>
                  pool_task'[t].current = Len(shared_pool.connections)
            /\ (pool_task[t].pc = "loaded" /\ pool_task'[t].pc # "loaded") =>
                  IF pool_task[t].current < shared_pool.pool_size
                  THEN shared_pool'.connections =
                           Append(shared_pool.connections, pool_task[t].conn)
                  ELSE /\ shared_pool'.connections = shared_pool.connections
                       /\ ~Holds(t)']_vars
    /\ [](/\ shared_pool.taken \cap Range(shared_pool.connections) = {}
          /\ \A t \in Tasks : Holds(t) => pool_task[t].conn \notin shared_pool.taken)

\* One connection was taken, and the drop of another one that was not has
\* read an idle count below pool_size.
C26_Witness ==
    /\ shared_pool.taken # {}
    /\ Settled
    /\ \E t \in Tasks :
          /\ pool_task[t].pc = "loaded"
          /\ pool_task[t].current < shared_pool.pool_size

\* The dials of the pre-population that connected.
Connected(outcomes) == {i \in DOMAIN outcomes : outcomes[i]}

\* C27: UnixConnectionPool::new with pool_size >= 1 fails exactly when none
\* of its dials connected; otherwise the pool it returns has on its idle
\* queue the connections that were dialed, each once and nothing else, and
\* its counter is their number.
C27_NewFailsOnlyOnZero ==
    [][(shared_pool.st = "unbuilt" /\ shared_pool'.st # "unbuilt") =>
          LET built == shared_pool'
              ok == Connected(built.outcomes)
          IN /\ built.st = "failed" <=> ok = {}
             /\ ok # {} =>
                   /\ built.st = "ready"
                   /\ Range(built.connections) = ok
                   /\ Len(built.connections) = Cardinality(ok)
                   /\ built.current_size = Cardinality(ok)]_vars

\* A pool built with one dial connected and one failed.
C27_Witness ==
    /\ shared_pool.st = "ready"
    /\ Cardinality(Connected(shared_pool.outcomes)) = 1
    /\ Len(shared_pool.outcomes) = 2
    /\ Len(shared_pool.connections) = 1
    /\ shared_pool.dialed = 0
    /\ \A t \in Tasks : pool_task[t].pc = "idle"

\* C28: whenever no gateway handler is running, each pool has the idle
\* connections it had at start-up: every POST /payments and every
\* GET /payments-summary served so far gave its connection back.
C28_HandlersReturnConnections ==
    gw_summary.st # "waiting" =>
        /\ Len(api_pool.connections) = PoolSize
        /\ api_pool.current_size = PoolSize
        /\ Len(db_pool.connections) = PoolSize
        /\ db_pool.current_size = PoolSize

\* No task is inside try_get_connection, return_connection or close.
NoPoolOperation == \A t \in Tasks : pool_task[t].pc \in {"idle", "holding"}

\* C29 as stated: on a pool in use the counter moves by one at a time and
\* never from zero to the largest value; the idle queue holds at most
\* pool_size connections; and when no operation is under way the counter is
\* the length of the idle queue.
C29_CounterNeverWraps ==
    /\ [][shared_pool.st = "ready" =>
            /\ shared_pool'.current_size - shared_pool.current_size \in {-1, 0, 1}
            /\ Len(shared_pool'.connections) <= shared_pool.pool_size]_vars
    /\ [](NoPoolOperation => shared_pool.current_size = Len(shared_pool.connections))

\* C29 as the code has it: when no task is between a queue access and the
\* counter update that goes with it, the counter is the length of the idle
\* queue (in between it may be off by the number of such tasks, below zero
\* included, where it wraps); and the idle queue holds fewer than
\* pool_size + NumTasks connections.
C29_CounterApproximate ==
    /\ [](Settled => shared_pool.current_size = Len(shared_pool.connections))
    /\ [](Len(shared_pool.connections) < shared_pool.pool_size + NumTasks)

\* The counter has wrapped around below zero.
C29_Witness ==
    /\ shared_pool.st = "ready"
    /\ shared_pool.current_size = USIZE - 1

\* The read loop of connection c hands a frame to the command loop this
\* step.
FrameForwarded(c) ==
    /\ conn[c].inbuf # <<>>
    /\ conn'[c].inbuf = Tail(conn[c].inbuf)
    /\ command_q' # command_q

\* The writer task of connection c writes a response line this step.
ResponseWritten(c) == conn'[c].out # conn[c].out /\ Len(conn'[c].out) > Len(conn[c].out)

\* C30: on a connection, frames reach the command loop in the order they
\* were sent (each goes to the back of the command channel, whose head is
\* what the loop takes), and each takes effect when taken: a Write leaves its
\* key in its partition with its value, a Purge leaves both partitions
\* empty, a Read is answered from the partitions as they are then; responses
\* go to the back of the connection's response channel and are written from
\* its front.  So a Read reflects what was sent before it, and responses
\* come back in the order of their Reads.
C30_FramesTakeEffectInOrder ==
    [][/\ \A c \in ConnIds : FrameForwarded(c) =>
              /\ Len(command_q') = Len(command_q) + 1
              /\ SubSeq(command_q', 1, Len(command_q)) = command_q
              /\ LastOf(command_q').type = Head(conn[c].inbuf).type
       /\ WriteTaken =>
              LET cmd == Head(command_q)
                  tree == IF cmd.tree = "Fallback" THEN fallback_tree' ELSE default_tree'
              IN cmd.key \in DOMAIN tree.kv /\ tree.kv[cmd.key] = cmd.value
       /\ PurgeTaken =>
              DOMAIN default_tree'.kv = {} /\ DOMAIN fallback_tree'.kv = {}
       /\ ReadAnswered =>
              LET cmd == Head(command_q)
                  c == cmd.response_tx
              IN /\ conn'[c].response_q =
                        Append(conn[c].response_q,
                               [default |-> Expected(default_tree, cmd.from, cmd.to),
                                fallback |-> Expected(fallback_tree, cmd.from, cmd.to)])
       /\ \A c \in ConnIds : ResponseWritten(c) =>
              /\ conn[c].response_q # <<>>
              /\ conn'[c].out = Append(conn[c].out, Head(conn[c].response_q))
              /\ conn'[c].response_q = Tail(conn[c].response_q)]_vars

\* ---- C31
\* The Reads of connection c that are in the command channel q.
ReadsForwarded(q, c) ==
    {i \in 1..Len(q) : q[i].type = "Read" /\ q[i].response_tx = c}

\* The response lines connection c is still owed or has been given: one for
\* each of its Reads in the command channel, one for each response in its
\* response channel, one for each line written to the client.
ResponsesDue(q, cn, c) ==
    Cardinality(ReadsForwarded(q, c)) + Len(cn[c].response_q) + Len(cn[c].out)

\* C31: every Read frame that handle_client has forwarded to the command
\* loop gets its response line written to that client, also when the read
\* loop sees the client's end of input before the command loop has answered:
\* no step discards a forwarded Read or a response that is waiting to be
\* written.
C31_ForwardedReadsAreAnswered ==
    [][\A c \in ConnIds :
          ResponsesDue(command_q', conn', c) >= ResponsesDue(command_q, conn, c)]_vars

\* ---- C32
\* The requests and the amount of the insert calls in S, each counted as
\* many times as it was made.
RECURSIVE CallsTotal(_)
CallsTotal(S) ==
    IF S = {} THEN [total_requests |-> 0, total_amount |-> 0]
    ELSE LET c == CHOOSE x \in S : TRUE
             rest == CallsTotal(S \ {c})
         IN [total_requests |-> CopiesIn(c, insert_calls) + rest.total_requests,
             total_amount |-> CopiesIn(c, insert_calls) * c.amount + rest.total_amount]

Within(time, from, to) == DateTime_le(from, time) /\ DateTime_le(time, to)

\* The start of the minute a time lies in.
MinuteOf(time) == [minute |-> time.minute, second |-> 0, nanosecond |-> 0]

\* The most recent call was a query with from <= to.
Queried == returned.call = "query" /\ DateTime_le(returned.from, returned.to)

\* C32 as stated: after any inserts, query(from, to) with from <= to reports
\* for each provider the number and the sum of the amounts of that
\* provider's inserts whose time lies in [from, to].
C32_QueryCountsTimesInRange ==
    Queried =>
        \A provider \in DOMAIN returned.result :
            returned.result[provider] =
                CallsTotal({c \in BagToSet(insert_calls) :
                               /\ c.provider = provider
                               /\ Within(c.time, returned.from, returned.to)})

\* C32 amended: query(from, to) with from <= to reports, for each provider
\* that has had an insert, the number and the sum of the amounts of that
\* provider's inserts whose time truncated to the minute lies in [from, to].
C32_QueryCountsMinutesInRange ==
    Queried =>
        /\ DOMAIN returned.result =
               {c.provider : c \in BagToSet(insert_calls)}
        /\ \A provider \in DOMAIN returned.result :
              returned.result[provider] =
                  CallsTotal({c \in BagToSet(insert_calls) :
                                 /\ c.provider = provider
                                 /\ Within(MinuteOf(c.time), returned.from, returned.to)})

\* A query whose lower bound is inside a minute, after two inserts into that
\* minute at or after the bound: the minute's bucket is below the bound and
\* neither insert is reported.
C32_Witness ==
    /\ Queried
    /\ returned.from # MinuteOf(returned.from)
    /\ \E provider \in DOMAIN returned.result :
          /\ returned.result[provider].total_requests = 0
          /\ \E c \in BagToSet(insert_calls) :
                /\ c.provider = provider
                /\ Within(c.time, returned.from, returned.to)
                /\ CopiesIn(c, insert_calls) = 2

\* ---- C33
\* The payment of request r has been handed to the workers: the dispatcher
\* has put its message on a worker's channel.
HandedToWorkers(r) ==
    \E w \in ServerWorkers :
        \/ \E i \in 1..Len(worker_rxs[w]) : worker_rxs[w][i].req = r
        \/ \E i \in 1..Len(worker_got[w]) : worker_got[w][i].req = r

\* C33: in the single-process server, a POST /payments answered with status
\* 500 has not handed its payment to the provider workers; a payment is
\* dispatched for processing only when its request is answered 202.
C33_ErrorMeansNotDispatched ==
    \A r \in Requests :
        http_req[r].pc = "done" /\ HandedToWorkers(r) => http_req[r].status = 202
====
